---- MODULE Spec2Model ----
(***************************************************************************)
(* Model of the agri-risk-assessment frontend: the risk scorer             *)
(* (calculateRiskScore, two versions of AppContent), the submit flow of    *)
(* RiskAssessmentForm -> riskService.assessRisk -> handleFormSubmit, and   *)
(* the props RiskResults derives from the stored assessment.               *)
(*                                                                         *)
(* Numbers are JavaScript numbers.  A finite number is kept as a reduced   *)
(* fraction n/d; NaN and the non-number values a lookup can yield are      *)
(* separate tags.  Every table value is a two-digit decimal, and on the    *)
(* whole table domain the IEEE-754 double results of the scorer fall on    *)
(* the same side of 0.3, 0.7 and 1.0 as the exact fractions, so the        *)
(* comparisons of the code are decided identically.                        *)
(***************************************************************************)
EXTENDS Integers, Sequences, FiniteSets, TLC

----------------------------------------------------------------------------
(* JavaScript values *)

RECURSIVE GCD(_, _)
GCD(a, b) == IF b = 0 THEN a ELSE GCD(b, a % b)

\* the finite number n/d (n >= 0, d > 0), reduced
Num(n, d) ==
  LET g == GCD(n, d) IN [t |-> "number", n |-> n \div g, d |-> d \div g]

NaN == [t |-> "NaN", n |-> 0, d |-> 1]

Infinity == [t |-> "Infinity", n |-> 0, d |-> 1]

Undefined == [t |-> "undefined", n |-> 0, d |-> 1]

\* a member inherited from Object.prototype (a function, or the prototype
\* object itself for "__proto__")
ProtoMember == [t |-> "object", n |-> 0, d |-> 1]

\* the string produced by `+` when an operand is an object or a string
NonNumericString == [t |-> "string", n |-> 0, d |-> 1]

IsNum(v) == v.t = "number"

\* ToNumber: objects, functions, non-numeric strings and undefined give NaN
ToNumber(v) == IF v.t \in {"number", "Infinity"} THEN v ELSE NaN

\* truthiness, as used by `||` and `&&`
Truthy(v) ==
  CASE v.t = "number" -> v.n # 0
    [] v.t = "NaN" -> FALSE
    [] v.t = "undefined" -> FALSE
    [] OTHER -> TRUE

\* a || b
JsOr(a, b) == IF Truthy(a) THEN a ELSE b

\* a + b: string concatenation as soon as one operand is not a primitive number
JsAdd(a, b) ==
  IF a.t \in {"object", "string"} \/ b.t \in {"object", "string"}
  THEN NonNumericString
  ELSE LET x == ToNumber(a)
           y == ToNumber(b)
       IN  IF x.t = "NaN" \/ y.t = "NaN" THEN NaN
           ELSE IF x.t = "Infinity" \/ y.t = "Infinity" THEN Infinity
           ELSE Num(x.n * y.d + y.n * x.d, x.d * y.d)

\* a * b
JsMul(a, b) ==
  LET x == ToNumber(a)
      y == ToNumber(b)
  IN  IF x.t = "NaN" \/ y.t = "NaN" THEN NaN
      ELSE IF x.t = "Infinity" \/ y.t = "Infinity"
           THEN IF (IsNum(x) /\ x.n = 0) \/ (IsNum(y) /\ y.n = 0) THEN NaN ELSE Infinity
      ELSE Num(x.n * y.n, x.d * y.d)

\* a / b
JsDiv(a, b) ==
  LET x == ToNumber(a)
      y == ToNumber(b)
  IN  IF x.t = "NaN" \/ y.t = "NaN" THEN NaN
      ELSE IF x.t = "Infinity" THEN (IF y.t = "Infinity" THEN NaN ELSE Infinity)
      ELSE IF y.t = "Infinity" THEN Num(0, 1)
      ELSE IF y.n = 0 THEN (IF x.n = 0 THEN NaN ELSE Infinity)
      ELSE Num(x.n * y.d, x.d * y.n)

\* a < b: false as soon as one side converts to NaN
JsLess(a, b) ==
  LET x == ToNumber(a)
      y == ToNumber(b)
  IN  IF x.t = "NaN" \/ y.t = "NaN" THEN FALSE
      ELSE IF x.t = "Infinity" THEN FALSE
      ELSE IF y.t = "Infinity" THEN TRUE
      ELSE x.n * y.d < y.n * x.d

\* MathMin with Math.max called in its place
MathMin_max(a, b) ==
  LET x == ToNumber(a)
      y == ToNumber(b)
  IN  IF x.t = "NaN" \/ y.t = "NaN" THEN NaN
      ELSE IF JsLess(x, y) THEN y ELSE x

\* Math.min(a, b): NaN as soon as one argument converts to NaN
MathMin(a, b) ==
  LET x == ToNumber(a)
      y == ToNumber(b)
  IN  IF x.t = "NaN" \/ y.t = "NaN" THEN NaN
      ELSE IF JsLess(y, x) THEN y ELSE x

\* the names every object literal inherits from Object.prototype
ObjectPrototypeKeys ==
  {"constructor", "toString", "toLocaleString", "valueOf", "hasOwnProperty",
   "isPrototypeOf", "propertyIsEnumerable", "__proto__",
   "__defineGetter__", "__defineSetter__", "__lookupGetter__", "__lookupSetter__"}

\* a key with its surrounding whitespace removed and its letter case made the
\* table's
NormalizedKey(key) ==
  CASE key = "punjab" -> "Punjab"
    [] key = " Punjab" -> "Punjab"
    [] key = "wheat" -> "Wheat"
    [] key = "Drought" -> "drought"
    [] OTHER -> key

\* GetProp with the key trimmed and matched without regard to letter case
GetProp_normalized(map, key) ==
  IF NormalizedKey(key) \in DOMAIN map THEN map[NormalizedKey(key)]
  ELSE IF key \in ObjectPrototypeKeys THEN ProtoMember
  ELSE Undefined

\* map[key] on an object literal: own property, else inherited member, else undefined
GetProp(map, key) ==
  IF key \in DOMAIN map THEN map[key]
  ELSE IF key \in ObjectPrototypeKeys THEN ProtoMember
  ELSE Undefined

----------------------------------------------------------------------------
(* The scorer's tables *)

locationRiskMap ==
  [k \in {"Maharashtra", "Punjab", "Haryana", "Uttar Pradesh", "Karnataka",
          "Tamil Nadu", "Andhra Pradesh", "Gujarat", "West Bengal", "Madhya Pradesh"} |->
     CASE k = "Maharashtra" -> Num(40, 100)
       [] k = "Punjab" -> Num(30, 100)
       [] k = "Haryana" -> Num(35, 100)
       [] k = "Uttar Pradesh" -> Num(45, 100)
       [] k = "Karnataka" -> Num(25, 100)
       [] k = "Tamil Nadu" -> Num(30, 100)
       [] k = "Andhra Pradesh" -> Num(40, 100)
       [] k = "Gujarat" -> Num(50, 100)
       [] k = "West Bengal" -> Num(60, 100)
       [] k = "Madhya Pradesh" -> Num(55, 100)]

cropRiskMap ==
  [k \in {"Rice", "Wheat", "Cotton", "Sugarcane", "Maize", "Pulses", "Oilseeds",
          "Vegetables", "Fruits", "Spices"} |->
     CASE k = "Rice" -> Num(40, 100)
       [] k = "Wheat" -> Num(30, 100)
       [] k = "Cotton" -> Num(60, 100)
       [] k = "Sugarcane" -> Num(35, 100)
       [] k = "Maize" -> Num(25, 100)
       [] k = "Pulses" -> Num(30, 100)
       [] k = "Oilseeds" -> Num(45, 100)
       [] k = "Vegetables" -> Num(50, 100)
       [] k = "Fruits" -> Num(40, 100)
       [] k = "Spices" -> Num(55, 100)]

scenarioMultipliers ==
  [k \in {"normal", "drought", "flood", "pest"} |->
     CASE k = "normal" -> Num(10, 10)
       [] k = "drought" -> Num(20, 10)
       [] k = "flood" -> Num(18, 10)
       [] k = "pest" -> Num(16, 10)]

scenarioRiskFactors ==
  [k \in {"normal", "drought", "flood", "pest"} |->
     CASE k = "normal" -> Num(10, 100)
       [] k = "drought" -> Num(50, 100)
       [] k = "flood" -> Num(45, 100)
       [] k = "pest" -> Num(40, 100)]

----------------------------------------------------------------------------
(* calculateRiskScore, as in Layout.tsx (AppContent) *)

\* locationRiskOf with the `|| 0.4` left out
locationRiskOf_noFallback(location) == GetProp(locationRiskMap, location)

\* locationRiskMap[location] || 0.4
locationRiskOf(location) == JsOr(GetProp(locationRiskMap, location), Num(4, 10))

\* cropRiskMap[crop] || 0.4
cropRiskOf(crop) == JsOr(GetProp(cropRiskMap, crop), Num(4, 10))

\* scenarioRiskFactors[scenario] || 0.1
scenarioRiskFactorOf(scenario) == JsOr(GetProp(scenarioRiskFactors, scenario), Num(1, 10))

\* scenarioMultiplierOf reading the table of the line above it
scenarioMultiplierOf_fromRiskFactors(scenario) ==
  JsOr(GetProp(scenarioRiskFactors, scenario), Num(1, 1))

\* scenarioMultipliers[scenario] || 1.0
scenarioMultiplierOf(scenario) == JsOr(GetProp(scenarioMultipliers, scenario), Num(1, 1))

\* baseScoreOf with the division by 2 left out
baseScoreOf_sum(locationRisk, cropRisk) == JsAdd(locationRisk, cropRisk)

\* baseScore = (locationRisk + cropRisk) / 2
baseScoreOf(locationRisk, cropRisk) == JsDiv(JsAdd(locationRisk, cropRisk), Num(2, 1))

\* finalScoreOf with the cap at 1.0 forgotten
finalScoreOf_uncapped(baseScore, scenarioMultiplier, scenarioRiskFactor) ==
  JsAdd(JsMul(baseScore, scenarioMultiplier), scenarioRiskFactor)

\* finalScore = Math.min((baseScore * scenarioMultiplier) + scenarioRiskFactor, 1.0)
finalScoreOf(baseScore, scenarioMultiplier, scenarioRiskFactor) ==
  MathMin(JsAdd(JsMul(baseScore, scenarioMultiplier), scenarioRiskFactor), Num(1, 1))

\* totalComponents = locationComponent + cropComponent + scenarioComponent
totalComponentsOf(locationRisk, cropRisk, scenarioRiskFactor) ==
  JsAdd(JsAdd(JsMul(locationRisk, Num(4, 10)), JsMul(cropRisk, Num(4, 10))),
        JsMul(scenarioRiskFactor, Num(2, 10)))

\* the three normalized contributions: each component divided by
\* totalComponents, whatever totalComponents is
featureContributionsOf(locationRisk, cropRisk, scenarioRiskFactor) ==
  LET locationComponent == JsMul(locationRisk, Num(4, 10))
      cropComponent == JsMul(cropRisk, Num(4, 10))
      scenarioComponent == JsMul(scenarioRiskFactor, Num(2, 10))
      totalComponents == totalComponentsOf(locationRisk, cropRisk, scenarioRiskFactor)
  IN  [location |-> JsDiv(locationComponent, totalComponents),
       crop |-> JsDiv(cropComponent, totalComponents),
       scenario |-> JsDiv(scenarioComponent, totalComponents)]

\* bandOf with the upper threshold tested by <= instead of <
bandOf_inclusive(finalScore) ==
  IF JsLess(finalScore, Num(3, 10)) THEN "Low"
  ELSE IF ToNumber(finalScore).t # "NaN" /\ ~JsLess(Num(7, 10), finalScore) THEN "Moderate"
  ELSE "High"

\* the band word chosen by the if / else-if / else on finalScore
bandOf(finalScore) ==
  IF JsLess(finalScore, Num(3, 10)) THEN "Low"
  ELSE IF JsLess(finalScore, Num(7, 10)) THEN "Moderate"
  ELSE "High"

\* the template literal, as the sequence of its pieces
reasonOf(finalScore, crop, location, scenario) ==
  <<bandOf(finalScore), " risk detected for ", crop, " cultivation in ", location,
    " under ", scenario, " conditions.">>

\* the object returned, from the scenario actually used for the numbers
\* (usedScenario) and the one printed in the reason (shownScenario)
scoreWith(location, crop, usedScenario, shownScenario) ==
  LET locationRisk == locationRiskOf(location)
      cropRisk == cropRiskOf(crop)
      scenarioRiskFactor == scenarioRiskFactorOf(usedScenario)
      scenarioMultiplier == scenarioMultiplierOf(usedScenario)
      finalScore == finalScoreOf(baseScoreOf(locationRisk, cropRisk),
                                 scenarioMultiplier, scenarioRiskFactor)
  IN  [score |-> finalScore,
       reason |-> reasonOf(finalScore, crop, location, shownScenario),
       feature_contributions |->
         featureContributionsOf(locationRisk, cropRisk, scenarioRiskFactor)]

\* Layout.tsx: const { location, crop, scenario } = formData; everything from these
calculateRiskScore(formData) ==
  scoreWith(formData.location, formData.crop, formData.scenario, formData.scenario)

----------------------------------------------------------------------------
(* calculateRiskScore, as in the earlier AppContent (part_000) *)

\* URLSearchParams.get('scenario'): << >> when the parameter is absent (null),
\* <<s>> when it is present with value s
UrlGet(urlScenario) == IF urlScenario = << >> THEN "" ELSE urlScenario[1]

\* scenarioValueOf without the final override by the form's scenario
scenarioValueOf_noOverride(formData, urlScenario) ==
  IF UrlGet(urlScenario) # "" THEN UrlGet(urlScenario)
  ELSE IF formData.scenario # "" /\ formData.scenario # "normal"
       THEN formData.scenario
       ELSE "normal"

\* the scenario the numbers are computed from: URL parameter, then the
\* non-normal form scenario, then the override by the non-normal form scenario
scenarioValueOf(formData, urlScenario) ==
  LET fromUrl == IF UrlGet(urlScenario) # "" THEN UrlGet(urlScenario)
                 ELSE IF formData.scenario # "" /\ formData.scenario # "normal"
                      THEN formData.scenario
                      ELSE "normal"
  IN  IF formData.scenario # "" /\ formData.scenario # "normal"
      THEN formData.scenario
      ELSE fromUrl

\* calculateRiskScore_part000 with scenarioValue printed in the reason
calculateRiskScore_part000_reasonFromUsed(formData, urlScenario) ==
  scoreWith(formData.location, formData.crop,
            scenarioValueOf(formData, urlScenario), scenarioValueOf(formData, urlScenario))

\* part_000: numbers from scenarioValue, reason from formData.scenario
calculateRiskScore_part000(formData, urlScenario) ==
  scoreWith(formData.location, formData.crop,
            scenarioValueOf(formData, urlScenario), formData.scenario)

----------------------------------------------------------------------------
(* State *)

VARIABLES
  formData,      \* the { location, crop, scenario } object handed to the scorer
  urlScenario,   \* the scenario parameter of window.location.search
  scenario,      \* the value held by ScenarioContext
  lastCall,      \* the most recent call of calculateRiskScore and what it returned
  activeStep,    \* RiskAssessmentForm: the stepper's step
  isSubmitting,  \* RiskAssessmentForm: a submit is being processed
  requests,      \* riskService.assessRisk calls in flight, each with its submissionData
  assessmentData,\* AppContent: the stored assessment (null until a submit is handled)
  route,         \* the router's current path
  lastSubmit,    \* what handleFormSubmit last received and the result it obtained
  formVersion,   \* which RiskAssessmentForm is mounted: 1 (simulated delay) or 2 (risk API)
  submits,       \* how many submits have passed validateForm
  onSubmitCalls, \* how many times the form has called onSubmit
  lastEvent,     \* the last step of a submission: invalid, submit, timer, resolved, rejected
  token,         \* AuthProvider: the token held in state
  localStorageToken, \* localStorage's item 'token'
  user,          \* AuthProvider: the user held in state
  isLoading,     \* AuthProvider: isLoading
  pending        \* AuthProvider: the login, signup and verification calls in flight

scorerVars == <<formData, urlScenario, scenario, lastCall>>

histVars == <<formVersion, submits, onSubmitCalls, lastEvent>>

authVars == <<token, localStorageToken, user, isLoading, pending>>

appVars == <<activeStep, isSubmitting, requests, assessmentData, route, lastSubmit,
             formVersion, submits, onSubmitCalls, lastEvent,
             token, localStorageToken, user, isLoading, pending>>

vars == <<formData, urlScenario, scenario, lastCall,
          activeStep, isSubmitting, requests, assessmentData, route, lastSubmit,
          formVersion, submits, onSubmitCalls, lastEvent,
          token, localStorageToken, user, isLoading, pending>>

\* strings handed to the scorer: every table key, and strings that are no key
Locations ==
  DOMAIN locationRiskMap \cup {"Unknown", "", "punjab", " Punjab", "constructor", "toString"}

Crops == DOMAIN cropRiskMap \cup {"Unknown", "", "wheat", "constructor"}

Scenarios ==
  DOMAIN scenarioRiskFactors \cup {"unknown", "", "Drought", "constructor"}

UrlScenarios == {<< >>, <<"">>, <<"normal">>, <<"drought">>, <<"flood">>}

ContextScenarios == {"normal", "drought"}

NoResult ==
  [score |-> Undefined, reason |-> << >>,
   feature_contributions |->
     [location |-> Undefined, crop |-> Undefined, scenario |-> Undefined]]

NoCall == [app |-> "none", out |-> NoResult]

\* null, as the initial assessmentData and as an empty response body
JsNull == [t |-> "null", n |-> 0, d |-> 1]

\* the state every mount of the second RiskAssessmentForm starts from
EmptyForm == [location |-> "", crop |-> "", scenario |-> ""]

\* at most this many submits pass validation in one behaviour
MaxSubmits == 2

\* null: what a cleared Autocomplete of the first form passes to handleChange,
\* and the token of a signed-out AuthProvider; kept apart from every string
NullValue == "\\null"

\* AuthProvider mounted with no token in localStorage
AuthSignedOut ==
  /\ token = NullValue
  /\ localStorageToken = NullValue
  /\ user = NullValue
  /\ isLoading = FALSE
  /\ pending = << >>

\* the application before anything was submitted
AppInit ==
  /\ AuthSignedOut
  /\ activeStep = 0
  /\ isSubmitting = FALSE
  /\ requests = << >>
  /\ assessmentData = JsNull
  /\ route = "/risk-assessment"
  /\ lastSubmit = << >>
  /\ formVersion = 2
  /\ submits = 0
  /\ onSubmitCalls = 0
  /\ lastEvent = "none"

----------------------------------------------------------------------------
(* The scorer as a state machine: the inputs are drawn at the start, the    *)
(* ambient state (URL, context) changes freely, each call is recorded.      *)

Init ==
  /\ formData \in [location : Locations, crop : Crops, scenario : Scenarios]
  /\ urlScenario \in UrlScenarios
  /\ scenario = "normal"
  /\ lastCall = NoCall
  /\ AppInit

\* the user opens the page with another query string
Navigate(u) ==
  /\ urlScenario' = u
  /\ UNCHANGED <<formData, scenario, lastCall>>
  /\ UNCHANGED appVars

\* ScenarioProvider's setScenario
SetScenario(s) ==
  /\ scenario' = s
  /\ UNCHANGED <<formData, urlScenario, lastCall>>
  /\ UNCHANGED appVars

\* a call of Layout.tsx's calculateRiskScore
CallLayout ==
  /\ lastCall' = [app |-> "Layout", out |-> calculateRiskScore(formData)]
  /\ UNCHANGED <<formData, urlScenario, scenario>>
  /\ UNCHANGED appVars

\* a call of part_000's calculateRiskScore
CallPart000 ==
  /\ lastCall' = [app |-> "part_000",
                  out |-> calculateRiskScore_part000(formData, urlScenario)]
  /\ UNCHANGED <<formData, urlScenario, scenario>>
  /\ UNCHANGED appVars

Next ==
  \/ \E u \in UrlScenarios : Navigate(u)
  \/ \E s \in ContextScenarios : SetScenario(s)
  \/ CallLayout
  \/ CallPart000

Spec == Init /\ [][Next]_vars

----------------------------------------------------------------------------
(* AppContent.handleFormSubmit (Layout.tsx) and the props of RiskResults *)

\* Math.abs(a - b)
MathAbsDiff(a, b) ==
  LET x == ToNumber(a)
      y == ToNumber(b)
  IN  IF x.t = "NaN" \/ y.t = "NaN" THEN NaN
      ELSE IF x.t = "Infinity" \/ y.t = "Infinity"
           THEN (IF x.t = y.t THEN NaN ELSE Infinity)
      ELSE LET p == x.n * y.d
               q == y.n * x.d
           IN  Num(IF p < q THEN q - p ELSE p - q, x.d * y.d)

\* an object of three contributions with no own key at all: {}
EmptyContributions == [location |-> Undefined, crop |-> Undefined, scenario |-> Undefined]

\* formattedResult: the API body read by the names risk_score, explanation
\* and contributing_factors, each with its || default
formattedResultOf(riskData) ==
  [score |-> IF "risk_score" \in DOMAIN riskData /\ Truthy(riskData.risk_score)
             THEN riskData.risk_score
             ELSE Num(5, 10),
   reason |-> IF "explanation" \in DOMAIN riskData /\ riskData.explanation # << >>
              THEN riskData.explanation
              ELSE <<"Risk assessment based on agricultural data">>,
   feature_contributions |->
     IF "contributing_factors" \in DOMAIN riskData
     THEN riskData.contributing_factors
     ELSE [location |-> Num(4, 10), crop |-> Num(3, 10), scenario |-> Num(3, 10)]]

\* a contribution after `if (typeof v === 'string') v = parseFloat(v) || 0.33`:
\* parseFloat of a string that is no number is NaN
convertedContributionOf(v) == IF v.t = "string" THEN JsOr(NaN, Num(33, 100)) ELSE v

\* normalizedResultOf with `sum = Number(...)` written for `sum += Number(...)`
normalizedResultOf_sumOverwritten(result) ==
  LET c == [location |-> convertedContributionOf(result.feature_contributions.location),
            crop |-> convertedContributionOf(result.feature_contributions.crop),
            scenario |-> convertedContributionOf(result.feature_contributions.scenario)]
      sum == ToNumber(c.scenario)
  IN  IF JsLess(Num(1, 10), MathAbsDiff(sum, Num(1, 1)))
      THEN [result EXCEPT !.feature_contributions =
              [location |-> JsDiv(ToNumber(c.location), sum),
               crop |-> JsDiv(ToNumber(c.crop), sum),
               scenario |-> JsDiv(ToNumber(c.scenario), sum)]]
      ELSE [result EXCEPT !.feature_contributions = c]

\* the post-processing of the local result, done in place on the contributions
\* (keys in the order location, crop, scenario): convert strings, sum, and
\* divide each by the sum when the sum is more than 0.1 away from 1
normalizedResultOf(result) ==
  LET c == [location |-> convertedContributionOf(result.feature_contributions.location),
            crop |-> convertedContributionOf(result.feature_contributions.crop),
            scenario |-> convertedContributionOf(result.feature_contributions.scenario)]
      sum == JsAdd(JsAdd(JsAdd(Num(0, 1), ToNumber(c.location)), ToNumber(c.crop)),
                   ToNumber(c.scenario))
  IN  IF JsLess(Num(1, 10), MathAbsDiff(sum, Num(1, 1)))
      THEN [result EXCEPT !.feature_contributions =
              [location |-> JsDiv(ToNumber(c.location), sum),
               crop |-> JsDiv(ToNumber(c.crop), sum),
               scenario |-> JsDiv(ToNumber(c.scenario), sum)]]
      ELSE [result EXCEPT !.feature_contributions = c]

\* formData.riskData is present and truthy
HasRiskData(arg) == "riskData" \in DOMAIN arg /\ arg.riskData # JsNull

\* { location, crop, scenario } copied from the submitted object
processedFormDataOf(arg) ==
  [location |-> arg.location, crop |-> arg.crop, scenario |-> arg.scenario]

\* the result handleFormSubmit obtains: formattedResult, or the post-processed
\* local calculation
obtainedResultOf(arg) ==
  IF HasRiskData(arg)
  THEN formattedResultOf(arg.riskData)
  ELSE normalizedResultOf(calculateRiskScore(processedFormDataOf(arg)))

\* the object handleFormSubmit passes to setAssessmentData:
\* { formData, result } on the API path, { ...result, formData } on the local one
storedAssessmentOf(arg) ==
  IF HasRiskData(arg)
  THEN [formData |-> processedFormDataOf(arg), result |-> obtainedResultOf(arg)]
  ELSE [score |-> obtainedResultOf(arg).score,
        reason |-> obtainedResultOf(arg).reason,
        feature_contributions |-> obtainedResultOf(arg).feature_contributions,
        formData |-> processedFormDataOf(arg)]

\* RiskResults: const { score = 0.5, reason = '', feature_contributions = {} } = result || {}
RiskResultsProps(result) ==
  [score |-> IF "score" \in DOMAIN result THEN result.score ELSE Num(5, 10),
   reason |-> IF "reason" \in DOMAIN result THEN result.reason ELSE << >>,
   feature_contributions |->
     IF "feature_contributions" \in DOMAIN result
     THEN result.feature_contributions
     ELSE EmptyContributions]

\* getRiskLevel with the upper threshold tested by <=
getRiskLevel_inclusive(score) ==
  IF JsLess(score, Num(3, 10)) THEN "Low Risk"
  ELSE IF ToNumber(score).t # "NaN" /\ ~JsLess(Num(7, 10), score) THEN "Moderate Risk"
  ELSE "High Risk"

\* RiskResults.getRiskLevel(score).level (the same in both RiskResults files)
getRiskLevel(score) ==
  IF JsLess(score, Num(3, 10)) THEN "Low Risk"
  ELSE IF JsLess(score, Num(7, 10)) THEN "Moderate Risk"
  ELSE "High Risk"

\* the results route renders <RiskResults result={assessmentData} ... />
ResultsView == RiskResultsProps(assessmentData)

\* the formData prop the results route builds: each field
\* assessmentData.formData?.field || ''
ResultsFormDataProp ==
  IF "formData" \in DOMAIN assessmentData THEN assessmentData.formData ELSE EmptyForm

\* RiskResults.getDefaultRiskFactors: its own three tables
RiskResults_locationRiskFactors ==
  [k \in {"Maharashtra", "Punjab", "Haryana", "Uttar Pradesh", "Karnataka",
          "Tamil Nadu", "Andhra Pradesh", "Gujarat", "West Bengal", "Madhya Pradesh"} |->
     CASE k = "Maharashtra" -> Num(35, 100)
       [] k = "Punjab" -> Num(30, 100)
       [] k = "Haryana" -> Num(32, 100)
       [] k = "Uttar Pradesh" -> Num(38, 100)
       [] k = "Karnataka" -> Num(40, 100)
       [] k = "Tamil Nadu" -> Num(42, 100)
       [] k = "Andhra Pradesh" -> Num(45, 100)
       [] k = "Gujarat" -> Num(38, 100)
       [] k = "West Bengal" -> Num(50, 100)
       [] k = "Madhya Pradesh" -> Num(36, 100)]

RiskResults_cropRiskFactors ==
  [k \in {"Rice", "Wheat", "Cotton", "Sugarcane", "Maize", "Pulses", "Oilseeds",
          "Vegetables", "Fruits", "Spices"} |->
     CASE k = "Rice" -> Num(40, 100)
       [] k = "Wheat" -> Num(30, 100)
       [] k = "Cotton" -> Num(45, 100)
       [] k = "Sugarcane" -> Num(35, 100)
       [] k = "Maize" -> Num(32, 100)
       [] k = "Pulses" -> Num(38, 100)
       [] k = "Oilseeds" -> Num(42, 100)
       [] k = "Vegetables" -> Num(25, 100)
       [] k = "Fruits" -> Num(28, 100)
       [] k = "Spices" -> Num(40, 100)]

RiskResults_scenarioRiskFactors ==
  [k \in {"normal", "drought", "flood", "pest"} |->
     CASE k = "normal" -> Num(20, 100)
       [] k = "drought" -> Num(45, 100)
       [] k = "flood" -> Num(50, 100)
       [] k = "pest" -> Num(40, 100)]

\* getDefaultRiskFactors(), from the formData prop: location, crop and
\* scenario are formData?.field || a placeholder, then table[field] || default
getDefaultRiskFactors(formDataProp) ==
  LET location == IF formDataProp.location # "" THEN formDataProp.location
                  ELSE "Unknown location"
      crop == IF formDataProp.crop # "" THEN formDataProp.crop ELSE "Unknown crop"
      scenarioName == IF formDataProp.scenario # "" THEN formDataProp.scenario
                      ELSE "normal conditions"
  IN  [location |-> JsOr(GetProp(RiskResults_locationRiskFactors, location), Num(40, 100)),
       crop |-> JsOr(GetProp(RiskResults_cropRiskFactors, crop), Num(30, 100)),
       scenario |-> JsOr(GetProp(RiskResults_scenarioRiskFactors, scenarioName),
                         Num(30, 100))]

\* the contributions RiskResults puts in the chart and in the Risk Factors
\* bars: feature_contributions when it has a key, else getDefaultRiskFactors()
displayedContributionsOf(result, formDataProp) ==
  IF RiskResultsProps(result).feature_contributions # EmptyContributions
  THEN RiskResultsProps(result).feature_contributions
  ELSE getDefaultRiskFactors(formDataProp)

\* what the results route shows for the stored assessment
DisplayedContributions == displayedContributionsOf(assessmentData, ResultsFormDataProp)

----------------------------------------------------------------------------
(* RiskAssessmentForm (the stepper form that calls the risk API) inside     *)
(* AppContent: the submit flow                                              *)

\* the options offered by the form that the model explores
FormLocations == {"West Bengal"}

FormCrops == {"Cotton"}

FormScenarios == {"normal", "drought"}

\* at most this many assessRisk calls in flight at once
MaxInFlight == 1

\* response bodies of POST /risk-assessment
ApiContributions == [location |-> Num(5, 10), crop |-> Num(3, 10), scenario |-> Num(2, 10)]

ApiBodies ==
  { [score |-> Num(8, 10), reason |-> <<"High risk reported by the API">>,
     feature_contributions |-> ApiContributions],
    [score |-> Num(0, 1), reason |-> <<"No risk reported by the API">>,
     feature_contributions |-> ApiContributions],
    [risk_score |-> Num(8, 10), explanation |-> <<"High risk reported by the API">>,
     contributing_factors |-> ApiContributions],
    JsNull }

InitApp ==
  /\ formData = EmptyForm
  /\ urlScenario = << >>
  /\ scenario = "normal"
  /\ lastCall = NoCall
  /\ AppInit

OnForm == route = "/risk-assessment"

\* the location Autocomplete of step 0 (cleared: '')
HandleChangeLocation(v) ==
  /\ OnForm /\ activeStep = 0
  /\ formData' = [formData EXCEPT !.location = v]
  /\ UNCHANGED <<urlScenario, scenario, lastCall>>
  /\ UNCHANGED appVars

\* the crop Autocomplete of step 1
HandleChangeCrop(v) ==
  /\ OnForm /\ activeStep = 1
  /\ formData' = [formData EXCEPT !.crop = v]
  /\ UNCHANGED <<urlScenario, scenario, lastCall>>
  /\ UNCHANGED appVars

\* a click on a scenario card of step 2: context and form data both updated
ScenarioClick_formOnly(s) ==
  /\ OnForm /\ activeStep = 2
  /\ formData' = [formData EXCEPT !.scenario = s]
  /\ UNCHANGED <<urlScenario, scenario, lastCall>>
  /\ UNCHANGED appVars

ScenarioClick(s) ==
  /\ OnForm /\ activeStep = 2
  /\ scenario' = s
  /\ formData' = [formData EXCEPT !.scenario = s]
  /\ UNCHANGED <<urlScenario, lastCall>>
  /\ UNCHANGED appVars

\* !value
Falsy(v) == v = "" \/ v = NullValue

\* the two early returns of handleNext: the step's own field must be set
handleNextPasses_unguarded(step, fd) == step = step /\ fd = fd

handleNextPasses(step, fd) ==
  /\ ~(step = 0 /\ Falsy(fd.location))
  /\ ~(step = 1 /\ Falsy(fd.crop))

\* Next (rendered on steps 0 and 1)
HandleNext ==
  /\ OnForm /\ activeStep < 2
  /\ handleNextPasses(activeStep, formData)
  /\ activeStep' = activeStep + 1
  /\ UNCHANGED scorerVars
  /\ UNCHANGED <<isSubmitting, requests, assessmentData, route, lastSubmit>>
  /\ UNCHANGED histVars
  /\ UNCHANGED authVars

\* Back (disabled on step 0)
HandleBack ==
  /\ OnForm /\ activeStep # 0
  /\ activeStep' = activeStep - 1
  /\ UNCHANGED scorerVars
  /\ UNCHANGED <<isSubmitting, requests, assessmentData, route, lastSubmit>>
  /\ UNCHANGED histVars
  /\ UNCHANGED authVars

\* validateForm: no field of formData is falsy
validateForm_locationOnly(fd) == ~Falsy(fd.location)

validateForm(fd) == ~Falsy(fd.location) /\ ~Falsy(fd.crop) /\ ~Falsy(fd.scenario)

\* the submit event of <Box component="form" onSubmit={handleSubmit}>: the submit
\* button of step 2 when it is enabled, or Enter in the one text input of steps
\* 0 and 1, whose form has no submit button
SubmitEvent ==
  /\ OnForm
  /\ activeStep = 2 => /\ ~isSubmitting
                       /\ formVersion = 2 => ~Falsy(formData.scenario)

\* handleSubmit of the second form up to the await of riskService.assessRisk;
\* a failed validation returns at once
HandleSubmit ==
  /\ formVersion = 2 /\ SubmitEvent
  /\ IF validateForm(formData)
     THEN /\ Len(requests) < MaxInFlight /\ submits < MaxSubmits
          /\ scenario' = formData.scenario
          /\ isSubmitting' = TRUE
          /\ requests' = Append(requests, formData)
          /\ submits' = submits + 1
          /\ lastEvent' = "submit"
     ELSE /\ lastEvent' = "invalid"
          /\ UNCHANGED <<scenario, isSubmitting, requests, submits>>
  /\ UNCHANGED <<formData, urlScenario, lastCall>>
  /\ UNCHANGED <<activeStep, assessmentData, route, lastSubmit, formVersion, onSubmitCalls>>
  /\ UNCHANGED authVars

\* handleSubmit of the first form up to the await of the 1500 ms timer
HandleSubmit_v1 ==
  /\ formVersion = 1 /\ SubmitEvent
  /\ IF validateForm(formData)
     THEN /\ Len(requests) < MaxInFlight /\ submits < MaxSubmits
          /\ isSubmitting' = TRUE
          /\ requests' = Append(requests, [formData EXCEPT !.scenario = scenario])
          /\ submits' = submits + 1
          /\ lastEvent' = "submit"
     ELSE /\ lastEvent' = "invalid"
          /\ UNCHANGED <<isSubmitting, requests, submits>>
  /\ UNCHANGED scorerVars
  /\ UNCHANGED <<activeStep, assessmentData, route, lastSubmit, formVersion, onSubmitCalls>>
  /\ UNCHANGED authVars

\* the state a mount of RiskAssessmentForm starts from: the first form takes
\* its scenario from the context
MountFormData == IF formVersion = 1 THEN [EmptyForm EXCEPT !.scenario = scenario] ELSE EmptyForm

\* onSubmit(arg): handleFormSubmit stores the assessment and navigates to
\* /results, which unmounts the form
HandleFormSubmit(arg) ==
  /\ assessmentData' = storedAssessmentOf(arg)
  /\ lastSubmit' = <<[arg |-> arg, result |-> obtainedResultOf(arg)]>>
  /\ lastCall' = IF HasRiskData(arg)
                 THEN lastCall
                 ELSE [app |-> "Layout",
                       out |-> calculateRiskScore(processedFormDataOf(arg))]
  /\ route' = "/results"
  /\ formData' = MountFormData
  /\ activeStep' = 0
  /\ isSubmitting' = FALSE
  /\ onSubmitCalls' = onSubmitCalls + 1
  /\ UNCHANGED <<formVersion, submits>>
  /\ UNCHANGED authVars

RemoveAt(q, i) == [j \in 1..(Len(q) - 1) |-> IF j < i THEN q[j] ELSE q[j + 1]]

\* assessRisk resolves with response.data = body: onSubmit({ ...submissionData, riskData })
ApiResolve(i, body) ==
  /\ formVersion = 2
  /\ i \in 1..Len(requests)
  /\ lastEvent' = "resolved"
  /\ requests' = RemoveAt(requests, i)
  /\ HandleFormSubmit([location |-> requests[i].location, crop |-> requests[i].crop,
                       scenario |-> requests[i].scenario, riskData |-> body])
  /\ UNCHANGED <<urlScenario, scenario>>

\* assessRisk rejects: onSubmit(submissionData), without riskData
ApiReject_silent(i) ==
  /\ formVersion = 2
  /\ i \in 1..Len(requests)
  /\ lastEvent' = "rejected"
  /\ requests' = RemoveAt(requests, i)
  /\ isSubmitting' = FALSE
  /\ UNCHANGED <<formData, urlScenario, scenario, lastCall>>
  /\ UNCHANGED <<activeStep, assessmentData, route, lastSubmit, formVersion, submits, onSubmitCalls>>
  /\ UNCHANGED authVars

ApiReject(i) ==
  /\ formVersion = 2
  /\ i \in 1..Len(requests)
  /\ lastEvent' = "rejected"
  /\ requests' = RemoveAt(requests, i)
  /\ HandleFormSubmit([location |-> requests[i].location, crop |-> requests[i].crop,
                       scenario |-> requests[i].scenario])
  /\ UNCHANGED <<urlScenario, scenario>>

\* the timer of the first form fires: onSubmit(submissionData)
TimerFires_noFinally(i) ==
  /\ formVersion = 1
  /\ i \in 1..Len(requests)
  /\ lastEvent' = "timer"
  /\ requests' = RemoveAt(requests, i)
  /\ UNCHANGED <<formData, urlScenario, scenario, lastCall>>
  /\ UNCHANGED <<activeStep, isSubmitting, assessmentData, route, lastSubmit, formVersion,
                 submits, onSubmitCalls>>
  /\ UNCHANGED authVars

TimerFires(i) ==
  /\ formVersion = 1
  /\ i \in 1..Len(requests)
  /\ lastEvent' = "timer"
  /\ requests' = RemoveAt(requests, i)
  /\ HandleFormSubmit([location |-> requests[i].location, crop |-> requests[i].crop,
                       scenario |-> requests[i].scenario])
  /\ UNCHANGED <<urlScenario, scenario>>

\* a navigation link: leaving or re-entering the form route remounts the form
GoTo(path) ==
  /\ path # route
  /\ route' = path
  /\ formData' = MountFormData
  /\ activeStep' = 0
  /\ isSubmitting' = FALSE
  /\ UNCHANGED <<urlScenario, scenario, lastCall, requests, assessmentData, lastSubmit>>
  /\ UNCHANGED histVars
  /\ UNCHANGED authVars

NextApp ==
  \/ \E v \in FormLocations \cup {""} : HandleChangeLocation(v)
  \/ \E v \in FormCrops \cup {""} : HandleChangeCrop(v)
  \/ \E s \in FormScenarios : ScenarioClick(s)
  \/ HandleNext
  \/ HandleBack
  \/ HandleSubmit
  \/ \E i \in 1..MaxInFlight, body \in ApiBodies : ApiResolve(i, body)
  \/ \E i \in 1..MaxInFlight : ApiReject(i)
  \/ \E path \in {"/risk-assessment", "/results"} : GoTo(path)

SpecApp == InitApp /\ [][NextApp]_vars

----------------------------------------------------------------------------
(* Both versions of RiskAssessmentForm under the same parent *)

InitForms ==
  /\ formVersion \in {1, 2}
  /\ urlScenario = << >>
  /\ scenario = "normal"
  /\ formData = MountFormData
  /\ lastCall = NoCall
  /\ activeStep = 0
  /\ isSubmitting = FALSE
  /\ requests = << >>
  /\ assessmentData = JsNull
  /\ route = "/risk-assessment"
  /\ lastSubmit = << >>
  /\ submits = 0
  /\ onSubmitCalls = 0
  /\ lastEvent = "none"
  /\ AuthSignedOut

\* what a cleared Autocomplete passes to handleChange
ClearedValue == IF formVersion = 1 THEN NullValue ELSE ""

NextForms ==
  \/ \E v \in FormLocations \cup {ClearedValue} : HandleChangeLocation(v)
  \/ \E v \in FormCrops \cup {ClearedValue} : HandleChangeCrop(v)
  \/ \E s \in FormScenarios : ScenarioClick(s)
  \/ HandleNext
  \/ HandleBack
  \/ HandleSubmit
  \/ HandleSubmit_v1
  \/ \E i \in 1..MaxInFlight, body \in ApiBodies \cup {JsNull} : ApiResolve(i, body)
  \/ \E i \in 1..MaxInFlight : ApiReject(i)
  \/ \E i \in 1..MaxInFlight : TimerFires(i)
  \/ \E path \in {"/risk-assessment", "/results"} : GoTo(path)

SpecForms == InitForms /\ [][NextForms]_vars

\* a pending timer fires, or a pending assessRisk call resolves or rejects:
\* the steps of TimerFires, ApiResolve and ApiReject, seen on requests alone
Settle == \E i \in 1..Len(requests) : requests' = RemoveAt(requests, i)

\* the forms when no timer and no request stays pending forever
FairSpecForms == SpecForms /\ WF_requests(Settle)

----------------------------------------------------------------------------
(* handleFormSubmit for every triple: the form has passed a triple to         *)
(* riskService.assessRisk and waits; the call resolves or rejects             *)

InitSubmit ==
  /\ formData \in [location : Locations, crop : Crops, scenario : Scenarios]
  /\ urlScenario = << >>
  /\ scenario = formData.scenario
  /\ lastCall = NoCall
  /\ activeStep = 2
  /\ isSubmitting = TRUE
  /\ requests = <<formData>>
  /\ assessmentData = JsNull
  /\ route = "/risk-assessment"
  /\ lastSubmit = << >>
  /\ formVersion = 2
  /\ submits = 1
  /\ onSubmitCalls = 0
  /\ lastEvent = "submit"
  /\ AuthSignedOut

NextSubmit ==
  \/ \E i \in 1..MaxInFlight, body \in ApiBodies : ApiResolve(i, body)
  \/ \E i \in 1..MaxInFlight : ApiReject(i)

SpecSubmit == InitSubmit /\ [][NextSubmit]_vars

----------------------------------------------------------------------------
(* AuthProvider: the token in state and in localStorage under login, signup, *)
(* logout and the verification started whenever the token changes            *)

\* access tokens the server hands out
Tokens == {"token-1", "token-2"}

\* response.user
AuthUser == "user"

\* at most this many login, signup and verification calls in flight at once
MaxPending == 2

nonAuthVars == <<formData, urlScenario, scenario, lastCall,
                 activeStep, isSubmitting, requests, assessmentData, route, lastSubmit,
                 formVersion, submits, onSubmitCalls, lastEvent>>

\* isAuthenticated: !!token
isAuthenticated == ~Falsy(token)

\* a call in flight: op is "login", "signup" or "verify"; returned says that
\* authService.login has returned response.data, with access_token got, and
\* the provider's continuation has not run yet
Call(op) == [op |-> op, returned |-> FALSE, got |-> NullValue]

\* the continuation of a returned authService.login runs before any other event
NoneReturned == \A i \in 1..Len(pending) : ~pending[i].returned

\* the calls in flight after call i is over and the token in state has become
\* newToken: the effect on [token] starts a verification of a new truthy token
pendingAfter(i, newToken) ==
  IF newToken # token /\ ~Falsy(newToken)
  THEN Append(RemoveAt(pending, i), Call("verify"))
  ELSE RemoveAt(pending, i)

\* AuthProvider mounts: the token is read from localStorage and the effect runs
InitAuth ==
  /\ formData = EmptyForm
  /\ urlScenario = << >>
  /\ scenario = "normal"
  /\ lastCall = NoCall
  /\ activeStep = 0
  /\ isSubmitting = FALSE
  /\ requests = << >>
  /\ assessmentData = JsNull
  /\ route = "/risk-assessment"
  /\ lastSubmit = << >>
  /\ formVersion = 2
  /\ submits = 0
  /\ onSubmitCalls = 0
  /\ lastEvent = "none"
  /\ localStorageToken \in Tokens \cup {NullValue}
  /\ token = localStorageToken
  /\ user = NullValue
  /\ isLoading = ~Falsy(token)
  /\ pending = IF Falsy(token) THEN << >> ELSE <<Call("verify")>>

\* login or signup up to its await
StartCall(op) ==
  /\ NoneReturned /\ Len(pending) < MaxPending
  /\ isLoading' = TRUE
  /\ pending' = Append(pending, Call(op))
  /\ UNCHANGED <<token, localStorageToken, user>>
  /\ UNCHANGED nonAuthVars

\* authService.login: the POST resolved; a truthy access_token is stored
LoginServiceReturns(i, t) ==
  /\ NoneReturned
  /\ i \in 1..Len(pending) /\ pending[i].op = "login"
  /\ localStorageToken' = IF Falsy(t) THEN localStorageToken ELSE t
  /\ pending' = [pending EXCEPT ![i] = [op |-> "login", returned |-> TRUE, got |-> t]]
  /\ UNCHANGED <<token, user, isLoading>>
  /\ UNCHANGED nonAuthVars

\* login and signup after their await, with response.access_token = t
Continue(i, t) ==
  /\ IF Falsy(t)
     THEN /\ pending' = RemoveAt(pending, i)
          /\ UNCHANGED <<token, localStorageToken, user>>
     ELSE /\ localStorageToken' = t
          /\ token' = t
          /\ user' = AuthUser
          /\ pending' = pendingAfter(i, t)
  /\ isLoading' = FALSE
  /\ UNCHANGED nonAuthVars

\* login after authService.login returned
LoginContinues(i) ==
  /\ i \in 1..Len(pending) /\ pending[i].op = "login" /\ pending[i].returned
  /\ Continue(i, pending[i].got)

\* signup after authService.signup resolved
SignupResolves(i, t) ==
  /\ NoneReturned
  /\ i \in 1..Len(pending) /\ pending[i].op = "signup"
  /\ Continue(i, t)

\* the POST of login or signup rejected: catch, then finally
CallRejects(i) ==
  /\ NoneReturned
  /\ i \in 1..Len(pending) /\ pending[i].op \in {"login", "signup"}
  /\ pending' = RemoveAt(pending, i)
  /\ isLoading' = FALSE
  /\ UNCHANGED <<token, localStorageToken, user>>
  /\ UNCHANGED nonAuthVars

\* verifyToken after its await: valid sets the user; an invalid token and a
\* rejected call both clear the token
VerifySettles(i, valid) ==
  /\ NoneReturned
  /\ i \in 1..Len(pending) /\ pending[i].op = "verify"
  /\ IF valid
     THEN /\ user' = AuthUser
          /\ UNCHANGED <<token, localStorageToken>>
     ELSE /\ localStorageToken' = NullValue
          /\ token' = NullValue
          /\ UNCHANGED user
  /\ pending' = RemoveAt(pending, i)
  /\ isLoading' = FALSE
  /\ UNCHANGED nonAuthVars

\* logout; the effect on [token] then finds no token
Logout_stateOnly ==
  /\ NoneReturned
  /\ token' = NullValue
  /\ user' = NullValue
  /\ isLoading' = IF Falsy(token) THEN isLoading ELSE FALSE
  /\ UNCHANGED <<localStorageToken, pending>>
  /\ UNCHANGED nonAuthVars

Logout ==
  /\ NoneReturned
  /\ localStorageToken' = NullValue
  /\ token' = NullValue
  /\ user' = NullValue
  /\ isLoading' = IF Falsy(token) THEN isLoading ELSE FALSE
  /\ UNCHANGED pending
  /\ UNCHANGED nonAuthVars

NextAuth ==
  \/ \E op \in {"login", "signup"} : StartCall(op)
  \/ \E i \in 1..MaxPending, t \in Tokens \cup {NullValue} : LoginServiceReturns(i, t)
  \/ \E i \in 1..MaxPending : LoginContinues(i)
  \/ \E i \in 1..MaxPending, t \in Tokens \cup {NullValue} : SignupResolves(i, t)
  \/ \E i \in 1..MaxPending : CallRejects(i)
  \/ \E i \in 1..MaxPending, valid \in BOOLEAN : VerifySettles(i, valid)
  \/ Logout

SpecAuth == InitAuth /\ [][NextAuth]_vars

----------------------------------------------------------------------------
(* Properties of the scorer *)

Called == lastCall.app # "none"

\* C1: for every input triple, key of its table or not, the returned score
\* is a number with 0 <= score <= 1.
C1_ScoreWithinUnitInterval ==
  Called => /\ IsNum(lastCall.out.score)
            /\ 0 <= lastCall.out.score.n
            /\ lastCall.out.score.n <= lastCall.out.score.d

\* C2: for every input triple, the three returned contributions sum to
\* exactly 1.
C2_ContributionsSumToOne ==
  Called =>
    LET c == lastCall.out.feature_contributions
    IN  /\ IsNum(c.location) /\ IsNum(c.crop) /\ IsNum(c.scenario)
        /\ JsAdd(JsAdd(c.location, c.crop), c.scenario) = Num(1, 1)

\* C3: two calls of the same scorer with the same input triple return the
\* same score, reason and contributions, whatever happened to the URL's query
\* string and to the ScenarioContext value between them.
C3_SameInputSameOutput ==
  [][(Called /\ lastCall'.app = lastCall.app) => lastCall'.out = lastCall.out]_vars

\* C4: a string that is not a key of its table gets the fallback value: 0.4
\* for location, 0.4 for crop, multiplier 1.0 and direct risk 0.1 for scenario.
C4_FallbackForNonKeys ==
  Called =>
    /\ formData.location \notin DOMAIN locationRiskMap
         => locationRiskOf(formData.location) = Num(4, 10)
    /\ formData.crop \notin DOMAIN cropRiskMap
         => cropRiskOf(formData.crop) = Num(4, 10)
    /\ formData.scenario \notin DOMAIN scenarioRiskFactors
         => /\ scenarioRiskFactorOf(formData.scenario) = Num(1, 10)
            /\ scenarioMultiplierOf(formData.scenario) = Num(1, 1)

\* The documented table values, in hundredths (multipliers in tenths), with
\* the documented fallback for every string that is not a listed key.
DocumentedLocation100(k) ==
  CASE k = "Maharashtra" -> 40 [] k = "Punjab" -> 30 [] k = "Haryana" -> 35
    [] k = "Uttar Pradesh" -> 45 [] k = "Karnataka" -> 25 [] k = "Tamil Nadu" -> 30
    [] k = "Andhra Pradesh" -> 40 [] k = "Gujarat" -> 50 [] k = "West Bengal" -> 60
    [] k = "Madhya Pradesh" -> 55 [] OTHER -> 40

DocumentedCrop100(k) ==
  CASE k = "Rice" -> 40 [] k = "Wheat" -> 30 [] k = "Cotton" -> 60
    [] k = "Sugarcane" -> 35 [] k = "Maize" -> 25 [] k = "Pulses" -> 30
    [] k = "Oilseeds" -> 45 [] k = "Vegetables" -> 50 [] k = "Fruits" -> 40
    [] k = "Spices" -> 55 [] OTHER -> 40

DocumentedMultiplier10(k) ==
  CASE k = "normal" -> 10 [] k = "drought" -> 20 [] k = "flood" -> 18
    [] k = "pest" -> 16 [] OTHER -> 10

DocumentedDirect100(k) ==
  CASE k = "normal" -> 10 [] k = "drought" -> 50 [] k = "flood" -> 45
    [] k = "pest" -> 40 [] OTHER -> 10

\* C5: on the ten locations, ten crops and four scenarios, plus one unknown
\* key per table, the score of Layout.tsx's scorer is
\* min(((locationRisk + cropRisk) / 2) * scenarioMultiplier + scenarioDirect, 1.0)
\* for the documented table values.
C5_ScoreMatchesFormula ==
  (/\ lastCall.app = "Layout"
   /\ formData.location \in DOMAIN locationRiskMap \cup {"Unknown"}
   /\ formData.crop \in DOMAIN cropRiskMap \cup {"Unknown"}
   /\ formData.scenario \in DOMAIN scenarioMultipliers \cup {"unknown"})
  => LET raw2000 == (DocumentedLocation100(formData.location)
                       + DocumentedCrop100(formData.crop))
                      * DocumentedMultiplier10(formData.scenario)
                    + 20 * DocumentedDirect100(formData.scenario)
         capped2000 == IF raw2000 < 2000 THEN raw2000 ELSE 2000
         s == lastCall.out.score
     IN  IsNum(s) /\ s.n * 2000 = capped2000 * s.d

\* C5 witness: Gujarat + Cotton + drought has been scored, and capped at 1.0
C5_Witness ==
  /\ lastCall.app = "Layout"
  /\ formData = [location |-> "Gujarat", crop |-> "Cotton", scenario |-> "drought"]
  /\ lastCall.out.score = Num(1, 1)

\* C6: for every input triple each contribution is its component
\* (locationRisk*0.4, cropRisk*0.4, scenarioDirect*0.2, the risks looked up
\* with the documented fallbacks) divided by the sum of the three components;
\* neither the multiplier nor the cap enters.
C6_ContributionsAreNormalizedComponents ==
  lastCall.app = "Layout" =>
    LET l100 == DocumentedLocation100(formData.location)
        c100 == DocumentedCrop100(formData.crop)
        d100 == DocumentedDirect100(formData.scenario)
        total == 4 * l100 + 4 * c100 + 2 * d100
        c == lastCall.out.feature_contributions
    IN  /\ IsNum(c.location) /\ c.location.n * total = 4 * l100 * c.location.d
        /\ IsNum(c.crop) /\ c.crop.n * total = 4 * c100 * c.crop.d
        /\ IsNum(c.scenario) /\ c.scenario.n * total = 2 * d100 * c.scenario.d

\* C7: the band word that starts reason follows the final score (< 0.3 Low,
\* 0.3 <= score < 0.7 Moderate, >= 0.7 High), and reason is the template
\* sentence with the three input strings inserted unchanged.
C7_BandAndReason ==
  Called =>
    LET s == lastCall.out.score
        r == lastCall.out.reason
    IN  /\ Len(r) = 8
        /\ (IsNum(s) /\ 10 * s.n < 3 * s.d) => r[1] = "Low"
        /\ (IsNum(s) /\ 10 * s.n >= 3 * s.d /\ 10 * s.n < 7 * s.d) => r[1] = "Moderate"
        /\ (IsNum(s) /\ 10 * s.n >= 7 * s.d) => r[1] = "High"
        /\ r[1] \in {"Low", "Moderate", "High"}
        /\ r = <<r[1], " risk detected for ", formData.crop, " cultivation in ",
                 formData.location, " under ", formData.scenario, " conditions.">>

\* C7 witness: West Bengal + Cotton + normal scored exactly 0.7 and reads High
C7_Witness ==
  /\ Called
  /\ formData = [location |-> "West Bengal", crop |-> "Cotton", scenario |-> "normal"]
  /\ lastCall.out.score = Num(7, 10)
  /\ lastCall.out.reason[1] = "High"

\* C8: the scenario named in the returned reason is the one whose multiplier
\* and direct risk produced the returned score and contributions.
C8_ReasonNamesScenarioUsed ==
  Called =>
    LET named == lastCall.out.reason[7]
        expected == scoreWith(formData.location, formData.crop, named, named)
    IN  /\ lastCall.out.score = expected.score
        /\ lastCall.out.feature_contributions = expected.feature_contributions

\* the position of a listed scenario in the order normal, pest, flood, drought
ScenarioRank(s) ==
  CASE s = "normal" -> 0 [] s = "pest" -> 1 [] s = "flood" -> 2 [] s = "drought" -> 3

\* the score Layout.tsx's scorer returns for the state's location and crop
\* under scenario s
ScoreUnder(s) == calculateRiskScore([formData EXCEPT !.scenario = s]).score

\* C11: with location and crop fixed (table keys or not), moving the scenario
\* up the order normal, pest, flood, drought never makes the score smaller, and
\* a scenario that is none of the four scores exactly what normal scores.
C11_ScenarioOrderAndUnknownScenario ==
  lastCall.app = "Layout" =>
    /\ formData.scenario \in DOMAIN scenarioMultipliers =>
         \A s \in DOMAIN scenarioMultipliers :
           ScenarioRank(formData.scenario) <= ScenarioRank(s)
             => ~JsLess(ScoreUnder(s), lastCall.out.score)
    /\ formData.scenario \notin DOMAIN scenarioMultipliers =>
         lastCall.out.score = ScoreUnder("normal")

\* C13: for every input triple the sum of the three unnormalized components
\* is a number strictly greater than zero (so no contribution is a division
\* by zero).
C13_TotalComponentsPositive ==
  lastCall.app = "Layout" =>
    LET total == totalComponentsOf(locationRiskOf(formData.location),
                                   cropRiskOf(formData.crop),
                                   scenarioRiskFactorOf(formData.scenario))
    IN  IsNum(total) /\ total.n > 0

\* strings of the input domain that differ from a table key only by letter
\* case or by surrounding whitespace
NearMissLocations == {"punjab", " Punjab"}

NearMissCrops == {"wheat"}

NearMissScenarios == {"Drought"}

\* C14: lookup is by exact string equality: when an input is a table key
\* written in another letter case or with surrounding whitespace ("punjab",
\* " Punjab", "wheat", "Drought"), the score and the contributions are those
\* of the fallback value for that input (0.4, 0.4, multiplier 1.0 with direct
\* risk 0.1) and not those of the key it resembles.
C14_NearMissKeysGetFallback ==
  (/\ lastCall.app = "Layout"
   /\ formData.location \in DOMAIN locationRiskMap \cup NearMissLocations
   /\ formData.crop \in DOMAIN cropRiskMap \cup NearMissCrops
   /\ formData.scenario \in DOMAIN scenarioMultipliers \cup NearMissScenarios
   /\ \/ formData.location \in NearMissLocations
      \/ formData.crop \in NearMissCrops
      \/ formData.scenario \in NearMissScenarios)
  => LET l100 == IF formData.location \in NearMissLocations THEN 40
                 ELSE DocumentedLocation100(formData.location)
         c100 == IF formData.crop \in NearMissCrops THEN 40
                 ELSE DocumentedCrop100(formData.crop)
         m10 == IF formData.scenario \in NearMissScenarios THEN 10
                ELSE DocumentedMultiplier10(formData.scenario)
         d100 == IF formData.scenario \in NearMissScenarios THEN 10
                 ELSE DocumentedDirect100(formData.scenario)
         raw2000 == (l100 + c100) * m10 + 20 * d100
         capped2000 == IF raw2000 < 2000 THEN raw2000 ELSE 2000
         total == 4 * l100 + 4 * c100 + 2 * d100
         s == lastCall.out.score
         c == lastCall.out.feature_contributions
         resembled == calculateRiskScore(
                        [location |-> NormalizedKey(formData.location),
                         crop |-> NormalizedKey(formData.crop),
                         scenario |-> NormalizedKey(formData.scenario)])
     IN  /\ IsNum(s) /\ s.n * 2000 = capped2000 * s.d
         /\ IsNum(c.location) /\ c.location.n * total = 4 * l100 * c.location.d
         /\ IsNum(c.crop) /\ c.crop.n * total = 4 * c100 * c.crop.d
         /\ IsNum(c.scenario) /\ c.scenario.n * total = 2 * d100 * c.scenario.d
         /\ c # resembled.feature_contributions

\* C14 witness: "punjab" + "wheat" + "Drought" has been scored as three
\* unknown strings: 0.5, where Punjab + Wheat + drought scores 1.0
C14_Witness ==
  /\ lastCall.app = "Layout"
  /\ formData = [location |-> "punjab", crop |-> "wheat", scenario |-> "Drought"]
  /\ lastCall.out.score = Num(5, 10)
  /\ calculateRiskScore([location |-> "Punjab", crop |-> "Wheat",
                         scenario |-> "drought"]).score = Num(1, 1)

\* C17: Punjab + Wheat + normal scores 0.4 and the reason starts with
\* "Moderate".
C17_PunjabWheatNormal ==
  (/\ lastCall.app = "Layout"
   /\ formData = [location |-> "Punjab", crop |-> "Wheat", scenario |-> "normal"])
  => /\ lastCall.out.score = Num(4, 10)
     /\ lastCall.out.reason[1] = "Moderate"

\* C17 witness: the scorer has returned for Punjab + Wheat + normal
C17_Witness ==
  /\ lastCall.app = "Layout"
  /\ formData = [location |-> "Punjab", crop |-> "Wheat", scenario |-> "normal"]
  /\ IsNum(lastCall.out.score)
  /\ Len(lastCall.out.reason) = 8

\* C18: Gujarat + Cotton + drought scores the cap 1.0, the value before the
\* cap being 1.6, and the reason starts with "High".
C18_GujaratCottonDrought ==
  (/\ lastCall.app = "Layout"
   /\ formData = [location |-> "Gujarat", crop |-> "Cotton", scenario |-> "drought"])
  => /\ lastCall.out.score = Num(1, 1)
     /\ JsAdd(JsMul(baseScoreOf(locationRiskOf("Gujarat"), cropRiskOf("Cotton")),
                    scenarioMultiplierOf("drought")),
              scenarioRiskFactorOf("drought")) = Num(16, 10)
     /\ lastCall.out.reason[1] = "High"

\* C18 witness: the scorer has returned for Gujarat + Cotton + drought, with
\* base score 0.55
C18_Witness ==
  /\ lastCall.app = "Layout"
  /\ formData = [location |-> "Gujarat", crop |-> "Cotton", scenario |-> "drought"]
  /\ IsNum(lastCall.out.score)
  /\ baseScoreOf(locationRiskOf(formData.location), cropRiskOf(formData.crop)) = Num(55, 100)

\* C19: "Unknown" + "Unknown" + "unknown" scores 0.5, the reason starts with
\* "Moderate", and the contributions are 0.16/0.34 for location, 0.16/0.34 for
\* crop and 0.02/0.34 for scenario.
C19_ThreeUnknownStrings ==
  (/\ lastCall.app = "Layout"
   /\ formData = [location |-> "Unknown", crop |-> "Unknown", scenario |-> "unknown"])
  => /\ lastCall.out.score = Num(5, 10)
     /\ lastCall.out.reason[1] = "Moderate"
     /\ lastCall.out.feature_contributions
          = [location |-> Num(16, 34), crop |-> Num(16, 34), scenario |-> Num(2, 34)]

\* C19 witness: the scorer has returned for three strings that are keys of no
\* table
C19_Witness ==
  /\ lastCall.app = "Layout"
  /\ formData = [location |-> "Unknown", crop |-> "Unknown", scenario |-> "unknown"]
  /\ formData.location \notin DOMAIN locationRiskMap
  /\ formData.crop \notin DOMAIN cropRiskMap
  /\ formData.scenario \notin DOMAIN scenarioMultipliers
  /\ IsNum(lastCall.out.score)

\* C20: Karnataka + Maize + pest scores 0.8 and the reason starts with "High".
C20_KarnatakaMaizePest ==
  (/\ lastCall.app = "Layout"
   /\ formData = [location |-> "Karnataka", crop |-> "Maize", scenario |-> "pest"])
  => /\ lastCall.out.score = Num(8, 10)
     /\ lastCall.out.reason[1] = "High"

\* C20 witness: the scorer has returned for Karnataka + Maize + pest, below
\* the cap
C20_Witness ==
  /\ lastCall.app = "Layout"
  /\ formData = [location |-> "Karnataka", crop |-> "Maize", scenario |-> "pest"]
  /\ IsNum(lastCall.out.score)
  /\ lastCall.out.score # Num(1, 1)

\* C21: in part_000's scorer, a form scenario that is neither empty nor
\* "normal" is the scenario the score and the contributions are computed
\* from, whatever the URL's scenario parameter is.
C21_FormScenarioOverridesUrl ==
  (/\ lastCall.app = "part_000"
   /\ formData.scenario # ""
   /\ formData.scenario # "normal")
  => /\ lastCall.out.score = calculateRiskScore(formData).score
     /\ lastCall.out.feature_contributions = calculateRiskScore(formData).feature_contributions

\* C21 witness: part_000's scorer has returned for form scenario drought while
\* the URL says flood
C21_Witness ==
  /\ lastCall.app = "part_000"
  /\ formData = [location |-> "Punjab", crop |-> "Wheat", scenario |-> "drought"]
  /\ urlScenario = <<"flood">>
  /\ lastCall.out.feature_contributions.scenario = Num(10, 34)

C23_Part000EqualsLayoutWithoutUrlParameter ==
  [][(CallPart000 /\ urlScenario = << >>) =>
       lastCall'.out = calculateRiskScore(formData)]_vars

\* C23 witness: part_000's scorer has returned for an empty form scenario with
\* no URL parameter: computed from "normal", printed as the empty string
C23_Witness ==
  /\ lastCall.app = "part_000"
  /\ urlScenario = << >>
  /\ formData = [location |-> "Punjab", crop |-> "Wheat", scenario |-> ""]
  /\ lastCall.out.score = Num(4, 10)
  /\ lastCall.out.reason[7] = ""

\* the band word of a risk level
BandOfLevel(level) ==
  CASE level = "Low Risk" -> "Low"
    [] level = "Moderate Risk" -> "Moderate"
    [] level = "High Risk" -> "High"

\* C24: for every result of calculateRiskScore, getRiskLevel of its score names
\* the band that starts its reason.
C24_RiskLevelMatchesReasonBand ==
  Called => BandOfLevel(getRiskLevel(lastCall.out.score)) = lastCall.out.reason[1]

\* C24 witness: a result whose score is exactly the threshold 0.7 is shown as
\* High Risk
C24_Witness ==
  /\ Called
  /\ lastCall.out.score = Num(7, 10)
  /\ getRiskLevel(lastCall.out.score) = "High Risk"
  /\ lastCall.out.reason[1] = "High"

----------------------------------------------------------------------------
(* Properties of the submit flow *)

\* C9: once handleFormSubmit has handled a submission, the score, reason and
\* contributions that RiskResults works with are those of the result obtained
\* for that submission (the API's result when riskData came with it, else the
\* local calculation).
C9_ViewShowsObtainedResult ==
  (route = "/results" /\ lastSubmit # << >>) =>
    /\ ResultsView.score = lastSubmit[1].result.score
    /\ ResultsView.reason = lastSubmit[1].result.reason
    /\ ResultsView.feature_contributions = lastSubmit[1].result.feature_contributions

\* C10: when the API body has the fields score, reason and
\* feature_contributions, the result stored for the submission carries exactly
\* those three values.
C10_ApiFieldsStoredUnchanged ==
  (/\ lastSubmit # << >>
   /\ HasRiskData(lastSubmit[1].arg)
   /\ {"score", "reason", "feature_contributions"} \subseteq DOMAIN lastSubmit[1].arg.riskData)
  => /\ assessmentData.result.score = lastSubmit[1].arg.riskData.score
     /\ assessmentData.result.reason = lastSubmit[1].arg.riskData.reason
     /\ assessmentData.result.feature_contributions
          = lastSubmit[1].arg.riskData.feature_contributions

\* C15: whatever result was stored (from the scorer, from the API, or one that
\* reaches RiskResults without feature_contributions), the three contribution
\* values RiskResults displays are numbers that sum to 1.0.
C15_DisplayedContributionsSumToOne ==
  (route = "/results" /\ assessmentData # JsNull) =>
    LET c == DisplayedContributions
    IN  /\ IsNum(c.location) /\ IsNum(c.crop) /\ IsNum(c.scenario)
        /\ JsAdd(JsAdd(c.location, c.crop), c.scenario) = Num(1, 1)

\* C16: on the local path, the score, the reason and the three contributions
\* stored after handleFormSubmit's post-processing are exactly what
\* calculateRiskScore returned, for every submitted triple.
C16_PostProcessingKeepsScorerResult ==
  (lastSubmit # << >> /\ ~HasRiskData(lastSubmit[1].arg)) =>
    /\ lastCall.app = "Layout"
    /\ assessmentData.score = lastCall.out.score
    /\ assessmentData.reason = lastCall.out.reason
    /\ assessmentData.feature_contributions = lastCall.out.feature_contributions

\* C16 witness: Gujarat + Cotton + drought went through the local path and the
\* stored contributions are the scorer's 0.2/0.54, 0.24/0.54 and 0.1/0.54
C16_Witness ==
  /\ lastSubmit # << >>
  /\ ~HasRiskData(lastSubmit[1].arg)
  /\ processedFormDataOf(lastSubmit[1].arg)
       = [location |-> "Gujarat", crop |-> "Cotton", scenario |-> "drought"]
  /\ assessmentData.feature_contributions
       = [location |-> Num(20, 54), crop |-> Num(24, 54), scenario |-> Num(10, 54)]

----------------------------------------------------------------------------
(* Properties of the two forms *)

\* C25: in both form versions activeStep stays in {0, 1, 2}; from step 1 on
\* the location is set, and on step 2 the crop is set as well
C25_StepInRangeAndEarlierFieldsSet ==
  /\ activeStep \in {0, 1, 2}
  /\ activeStep >= 1 => ~Falsy(formData.location)
  /\ activeStep = 2 => ~Falsy(formData.crop)

\* the first form on its last step after a crop was cleared and chosen again
C25_Witness ==
  /\ formVersion = 1 /\ activeStep = 2 /\ lastEvent = "invalid"
  /\ formData.location = "West Bengal" /\ formData.crop = "Cotton"

AnyFieldFalsy(fd) == Falsy(fd.location) \/ Falsy(fd.crop) \/ Falsy(fd.scenario)

C27_OneOnSubmitPerValidatedSubmit ==
  /\ [](formVersion = 2 => onSubmitCalls + Len(requests) = submits)
  /\ [][(formVersion = 2 /\ onSubmitCalls' # onSubmitCalls)
         => /\ onSubmitCalls' = onSubmitCalls + 1
            /\ Len(requests') = Len(requests) - 1
            /\ lastEvent' \in {"resolved", "rejected"}
            /\ lastEvent' = "resolved" => "riskData" \in DOMAIN lastSubmit'[1].arg
            /\ lastEvent' = "rejected"
                 => /\ "riskData" \notin DOMAIN lastSubmit'[1].arg
                    /\ lastSubmit'[1].result
                         = normalizedResultOf(calculateRiskScore(processedFormDataOf(lastSubmit'[1].arg)))]_vars
  /\ (formVersion = 2 /\ Len(requests) > 0) ~> (onSubmitCalls = submits)

\* two validated submits of the second form, the first ended by a rejected
\* call and the second by a resolved one
C27_Witness ==
  /\ formVersion = 2 /\ submits = 2 /\ onSubmitCalls = 2 /\ requests = << >>
  /\ lastEvent = "resolved" /\ HasRiskData(lastSubmit[1].arg)
  /\ lastCall.app = "Layout"

\* C28: in both form versions a submission that has set isSubmitting to true
\* sets it to false again, provided its timer or request settles
C28_SubmittingEventuallyEnds == isSubmitting ~> ~isSubmitting

\* the first form after its timer fired: the submission is over
C28_Witness ==
  /\ formVersion = 1 /\ lastEvent = "timer" /\ submits = 1 /\ onSubmitCalls = 1
  /\ ~isSubmitting /\ requests = << >>

\* C29: in the second form a non-empty formData.scenario equals the scenario
\* held by ScenarioContext, and the scenario a validated submit sends to
\* assessRisk is the context's scenario at that moment
C29_FormScenarioEqualsContext ==
  /\ [](formData.scenario # "" => formData.scenario = scenario)
  /\ [][(HandleSubmit /\ submits' = submits + 1)
         => /\ requests'[Len(requests')].scenario = scenario
            /\ requests'[Len(requests')].scenario = scenario']_vars

\* a submit of "drought" after the form was remounted and the context still
\* held the scenario of the earlier submission
C29_Witness ==
  /\ submits = 2 /\ Len(requests) = 1 /\ lastEvent = "submit"
  /\ requests[1].scenario = "drought" /\ scenario = "drought"
  /\ lastSubmit # << >> /\ lastSubmit[1].arg.scenario = "normal"

----------------------------------------------------------------------------
(* Properties of AuthProvider *)

\* C30: whenever no login, signup or verification is in flight, the token in
\* state equals the token in localStorage (both absent or the same value) and
\* isAuthenticated is true exactly when that token is present
C30_TokenMatchesLocalStorageWhenIdle ==
  pending = << >>
    => /\ token = localStorageToken
       /\ isAuthenticated <=> localStorageToken \in Tokens

\* idle and signed in with the second token after the verification of the
\* first one had cleared it
C30_Witness ==
  /\ pending = << >> /\ token = "token-2" /\ localStorageToken = "token-2"
  /\ isAuthenticated /\ user = AuthUser /\ ~isLoading

====
